---- MODULE Spec2Model ----
(***************************************************************************)
(* Key rotation proxy: ApiKeyManager (src/api_key_manager.py) and the      *)
(* forward-and-retry loop ProxyServer.proxy_handler (src/proxy_server.py). *)
(*                                                                         *)
(* proxy_handler calls get_current_key, mark_key_rate_limited and          *)
(* mark_key_success of the key manager; src/api_key_manager.py holds       *)
(* get_next_key and get_key_count only, so the three cooldown operations   *)
(* follow the design document (KeyPool.selectKey / markFailure /           *)
(* markSuccess) on the deque and lock of the source.                       *)
(***************************************************************************)
EXTENDS Integers, Sequences, FiniteSets, TLC

\* ------------------------------------------------------------------ bounds
MaxKeys == 2
MaxCalls == 5
MaxRequests == 2
MaxMapping == 3
MaxPathLen == 3
MaxOps == 4

\* cooldown_seconds, in clock ticks
CooldownDuration == 2

\* ------------------------------------------------------------------ values
KeyNames == <<"A", "B", "C", "D">>
\* two request tasks run concurrently
Tasks == {1, 2}
NoTask == 0
NoKey == "none"

\* what the upstream can answer, and what an outbound call can raise
Statuses == {200, 404, 429, 500, 503}
Bodies == {"payload"}
\* request.method; it selects one of two branches and is not kept
Methods == {"GET", "HEAD", "OPTIONS", "POST", "PUT", "PATCH", "DELETE"}
\*   ClientConnectionError, ServerTimeoutError: subclasses of aiohttp.ClientError
\*   TimeoutError: asyncio.TimeoutError, raised when the total timeout of the
\*     client session runs out
\*   RuntimeError: any other exception
\*   CancelledError: asyncio.CancelledError, raised at the pending await when the
\*     inbound request is cancelled
Exceptions ==
  {"ClientConnectionError", "ServerTimeoutError", "TimeoutError", "RuntimeError",
   "CancelledError"}

NoResponse == [kind |-> "none", status |-> 0, body |-> "none"]
\* web.Response(status=resp.status, body=body, headers=...)
UpstreamResponse(s, b) == [kind |-> "upstream", status |-> s, body |-> b]
\* web.Response(status=503, text="Service unavailable: Maximum retries exceeded.")
Synthetic503 == [kind |-> "synthetic", status |-> 503, body |-> "Service unavailable"]
\* web.Response(status=500, text=f"Proxy error: {e}")
Synthetic500 == [kind |-> "synthetic", status |-> 500, body |-> "Proxy error"]
\* no response object: the exception leaves proxy_handler
Raised == [kind |-> "raised", status |-> 0, body |-> "none"]

VARIABLES
  keys0,        \* the configured mapping's values, in mapping order (constructor input)
  keys,         \* ApiKeyManager._keys (deque)
  lock,         \* ApiKeyManager._lock: the task holding it, or NoTask
  cooldown,     \* per key: the time left until its cooldown ends (0: available)
  task,         \* per task: its position and the locals of proxy_handler
                \*   pc, api_key, attempt, max_retries, response,
                \*   result (what proxy_handler returned), sleep (time left to sleep)
  log,          \* history: keys returned by get_next_key, in lock order
  calls,        \* history: number of get_next_key calls started
  requests,     \* history: number of requests started
  hist,         \* history per task: sent (outbound calls issued by the request in
                \*   progress; 0 again once it has ended),
                \*   outcome (how its latest attempt ended), blockedLeft (time left
                \*   until the earliest cooldown end seen when its selection first
                \*   blocked, -1: not blocked), advanced (cursor positions the
                \*   latest selection moved), upstream (what the upstream answered)
  sinceFail,    \* history: time since the latest recorded failure per key
                \*   (-1: none recorded within the last CooldownDuration)
  cleared,      \* history: a success was recorded after that failure
  scen,         \* history: how far the run so far matches the two-request example
                \*   of the design ("off": it does not)
  ext           \* the part of the program outside the running proxy that a
                \*   specification looks at: main() at startup, the locals of
                \*   proxy_handler before its loop, or the key store ("none" in the
                \*   specifications of the running proxy)

poolVars == <<keys0, keys, lock, cooldown>>
histVars == <<log, calls, requests, hist, sinceFail, cleared, scen>>
vars == <<poolVars, task, histVars, ext>>

\* the locals of a task that handles no request
IdleTask ==
  [pc |-> "idle", api_key |-> NoKey, attempt |-> 0, max_retries |-> 0,
   response |-> NoResponse, result |-> NoResponse, sleep |-> 0]

NoUpstream == [status |-> 0, body |-> "none"]
NoHist == [sent |-> 0, outcome |-> "none", blockedLeft |-> -1, advanced |-> 0,
           upstream |-> NoUpstream]

\* ------------------------------------------------ ApiKeyManager (deque ops)
\* deque.rotate(-1): the head moves to the tail
Rotate_Identity(q) == q
Rotate_KeepHead(q) == q \o <<Head(q)>>
Rotate(q) == Tail(q) \o <<Head(q)>>

\* self._keys[-1]
LastKey_Head(q) == q[1]
LastKey(q) == q[Len(q)]

\* the end of `async with self._lock:`: the lock is free again when the
\* coroutine goes on (to its return, to the network call, to its sleep)
Release_Held(t) == t
Release(t) == NoTask

get_key_count == Len(keys)

\* the keys of the pool
KeySet == {keys0[i] : i \in 1..Len(keys0)}

\* ApiKeyManager.__init__ on a non-empty mapping of 1..MaxKeys keys
InitPool ==
  /\ keys0 \in {SubSeq(KeyNames, 1, n) : n \in 1..MaxKeys}
  /\ keys = keys0
  /\ lock = NoTask
  /\ cooldown = [k \in KeySet |-> 0]
  /\ task = [t \in Tasks |-> IdleTask]
  /\ log = <<>>
  /\ calls = 0
  /\ requests = 0
  /\ hist = [t \in Tasks |-> NoHist]
  /\ sinceFail = [k \in KeySet |-> -1]
  /\ cleared = [k \in KeySet |-> FALSE]
  /\ scen = "fresh"

Init == InitPool /\ ext = "none"

\* a task calls get_next_key()
GnkCall(t) ==
  /\ task[t].pc = "idle"
  /\ calls < MaxCalls
  /\ calls' = calls + 1
  /\ task' = [task EXCEPT ![t].pc = "gnk_acquire"]
  /\ UNCHANGED <<ext, poolVars, log, requests, hist, sinceFail, cleared, scen>>

\* async with self._lock: (entry)
GnkAcquire(t) ==
  /\ task[t].pc = "gnk_acquire"
  /\ lock = NoTask
  /\ lock' = t
  /\ task' = [task EXCEPT ![t].pc = "gnk_locked"]
  /\ UNCHANGED <<ext, keys0, keys, cooldown, histVars>>

\* self._keys.rotate(-1); return self._keys[-1]  (the lock is released on exit)
GnkBody(t) ==
  /\ task[t].pc = "gnk_locked"
  /\ lock = t
  /\ keys' = Rotate(keys)
  /\ task' = [task EXCEPT ![t].pc = "idle", ![t].api_key = LastKey(keys')]
  /\ log' = Append(log, LastKey(keys'))
  /\ lock' = Release(t)
  /\ UNCHANGED <<ext, keys0, cooldown, calls, requests, hist, sinceFail, cleared, scen>>

\* ------------------------------------------- main(): ApiKeyManager.__init__
\* the mappings json.loads can hand to the constructor, as the sequence of their
\* values in mapping order
RECURSIVE SeqsUpTo(_, _)
SeqsUpTo(S, n) ==
  IF n = 0 THEN {<< >>}
  ELSE LET shorter == SeqsUpTo(S, n - 1)
       IN shorter \cup {Append(q, x) : q \in {r \in shorter : Len(r) = n - 1}, x \in S}
Mappings == SeqsUpTo({KeyNames[i] : i \in 1..Len(KeyNames)}, MaxMapping)

\* if not self._keys
IsEmpty_Never(q) == FALSE
IsEmpty(q) == Len(q) = 0

\* the process before main() builds the key manager: no pool, no task
InitMain ==
  /\ ext \in {[pc |-> "main", api_keys |-> m, api_key_manager |-> "none", error |-> "none"] :
               m \in Mappings}
  /\ keys0 = << >>
  /\ keys = << >>
  /\ lock = NoTask
  /\ cooldown = << >>
  /\ task = [t \in Tasks |-> IdleTask]
  /\ log = << >>
  /\ calls = 0
  /\ requests = 0
  /\ hist = [t \in Tasks |-> NoHist]
  /\ sinceFail = << >>
  /\ cleared = << >>
  /\ scen = "off"

\* ApiKeyManager(api_keys): self._keys = deque(keys.values()); self._lock = Lock()
InitAssign ==
  /\ ext.pc = "main"
  /\ keys0' = ext.api_keys
  /\ keys' = ext.api_keys
  /\ lock' = NoTask
  /\ ext' = [ext EXCEPT !.pc = "init_check"]
  /\ UNCHANGED <<cooldown, task, histVars>>

\* if not self._keys: raise ValueError -- main() does not catch it and binds no
\* manager
InitRaise ==
  /\ ext.pc = "init_check"
  /\ IsEmpty(keys)
  /\ ext' = [ext EXCEPT !.pc = "failed", !.error = "ValueError"]
  /\ UNCHANGED <<poolVars, task, histVars>>

\* __init__ returns: api_key_manager is bound; proxy = ProxyServer(api_key_manager)
InitReturn ==
  /\ ext.pc = "init_check"
  /\ ~IsEmpty(keys)
  /\ ext' = [ext EXCEPT !.pc = "constructed", !.api_key_manager = "ApiKeyManager"]
  /\ UNCHANGED <<poolVars, task, histVars>>

NextMain == InitAssign \/ InitRaise \/ InitReturn

SpecMain == InitMain /\ [][NextMain]_vars

NextPool == \E t \in Tasks : GnkCall(t) \/ GnkAcquire(t) \/ GnkBody(t)

SpecPool == Init /\ [][NextPool]_vars

\* ------------------------------------- ApiKeyManager: cooldown operations
RECURSIVE RotateN(_, _)
RotateN(q, n) == IF n = 0 THEN q ELSE RotateN(Rotate(q), n - 1)

\* a key is ineligible while current time < cooling-until
IsAvailable_Always(cd, k) == TRUE
IsAvailable(cd, k) == cd[k] = 0

\* number of cursor advances until an available key is at the cursor; 0 when a
\* full cycle finds none
ScanSteps(q, cd) ==
  LET hits == {j \in 1..Len(q) : IsAvailable(cd, LastKey(RotateN(q, j)))}
  IN IF hits = {} THEN 0 ELSE CHOOSE j \in hits : \A i \in hits : j <= i

\* the time left until the earliest cooling-until among all credentials
EarliestExpiry_Latest(cd) == CHOOSE m \in {cd[k] : k \in DOMAIN cd} : \A k \in DOMAIN cd : m >= cd[k]
EarliestExpiry(cd) == CHOOSE m \in {cd[k] : k \in DOMAIN cd} : \A k \in DOMAIN cd : m <= cd[k]

\* markFailure: cooling-until = now + cooldownDuration
RateLimited_None(cd, k) == cd
RateLimited_Short(cd, k) == [cd EXCEPT ![k] = CooldownDuration - 1]
RateLimited(cd, k) == [cd EXCEPT ![k] = CooldownDuration]

\* markSuccess: clears any cooldown
Success_ClearAll(cd, k) == [j \in DOMAIN cd |-> 0]
Success(cd, k) == [cd EXCEPT ![k] = 0]

\* ---------------------------------------- ProxyServer.proxy_handler: decisions
\* the if / elif / else over resp.status
StatusBranch_No500(status) ==
  IF status = 429 THEN "rate_limited"
  ELSE IF status < 400 THEN "success" ELSE "return"
StatusBranch_AllErrors(status) ==
  IF status >= 400 THEN "rate_limited" ELSE "success"
StatusBranch_NoSuccess(status) ==
  IF status = 429 \/ status = 500 THEN "rate_limited" ELSE "return"
StatusBranch(status) ==
  IF status = 429 THEN "rate_limited"
  ELSE IF status = 500 THEN "rate_limited"
  ELSE IF status < 400 THEN "success"
  ELSE "return"

\* except aiohttp.ClientError: asyncio.TimeoutError and the rest are not
IsClientError_Any(e) == TRUE
IsClientError(e) == e \in {"ClientConnectionError", "ServerTimeoutError"}

\* except Exception: asyncio.CancelledError derives from BaseException
IsException(e) == e # "CancelledError"

\* history: the kind of exception the first except clause was entered with
Caught(e) == IF e = "CancelledError" THEN "CancelledError" ELSE "ClientError"

\* ROTATE_KEY_ERROR_CODES = {429, 500}
ROTATE_KEY_ERROR_CODES == {429, 500}

\* max_retries = get_key_count() * 2
MaxRetries(n) == n * 2

\* `return r`: the locals die, the result stays
Return(t, r) == [task EXCEPT ![t] = [IdleTask EXCEPT !.pc = "done", !.result = r]]

\* the head of `for attempt in range(max_retries)` with loop index a: one more
\* iteration, or the loop is exhausted and 503 is returned
LoopHead(t, a) ==
  IF a < task[t].max_retries
  THEN [task EXCEPT ![t].pc = "get_key", ![t].attempt = a, ![t].api_key = NoKey,
                    ![t].response = NoResponse]
  ELSE Return(t, Synthetic503)

\* `continue`
Continue(t) == LoopHead(t, task[t].attempt + 1)

\* history: the attempt of task t ended with outcome o
Outcome(t, o) == [hist EXCEPT ![t].outcome = o, ![t].advanced = 0, ![t].blockedLeft = -1]
\* history: the request of task t ended with outcome o
Ended(t, o) ==
  [hist EXCEPT ![t].outcome = o, ![t].advanced = 0, ![t].blockedLeft = -1, ![t].sent = 0]
\* history: the upstream answered task t with status s and body b
Answer(t, s, b) ==
  [hist EXCEPT ![t].upstream = [status |-> s, body |-> b],
               ![t].advanced = 0, ![t].blockedLeft = -1]
\* history: the upstream's answer to task t is returned to the caller
AnswerReturned(t, s, b) ==
  [hist EXCEPT ![t].upstream = [status |-> s, body |-> b], ![t].outcome = "returned",
               ![t].advanced = 0, ![t].blockedLeft = -1, ![t].sent = 0]

\* ------------------------------------------------------ IncomingKeyManager
\* what secrets.token_urlsafe can give, what a caller can present, and the names
Tokens == {"sk-1", "sk-2", "sk-3"}
Names == {"alice", "bob"}

\* the rows of api_keys whose api_key column is k (the column is UNIQUE)
RowsOf(tbl, k) == {i \in 1..Len(tbl) : tbl[i].api_key = k}

\* UPDATE api_keys SET revoked = 1 ... WHERE api_key = ? AND revoked = 0
RevokeWhere_AnyState(row, k) == row.api_key = k
RevokeWhere(row, k) == row.api_key = k /\ row.revoked = 0

\* SELECT COUNT(*) FROM api_keys WHERE revoked = 0 / WHERE revoked = 1
IsActive_Any(row) == TRUE
IsActive(row) == row.revoked = 0
IsRevoked(row) == row.revoked = 1

\* get_stats(): the three counts over the table
get_stats(tbl) ==
  [total |-> Cardinality({i \in 1..Len(tbl) : TRUE}),
   active |-> Cardinality({i \in 1..Len(tbl) : IsActive(tbl[i])}),
   revoked |-> Cardinality({i \in 1..Len(tbl) : IsRevoked(tbl[i])})]

\* the key store on an empty database, after _init_database; issued and
\* revoked_ok are history: the tokens generate_api_key has returned and the tokens
\* for which revoke_api_key has returned True; n_generated and n_revoked_true
\* count the generate_api_key calls that returned a token and the
\* revoke_api_key calls that returned True
InitStore ==
  /\ InitPool
  /\ ext = [table |-> << >>, ops |-> 0, issued |-> {}, revoked_ok |-> {},
            n_generated |-> 0, n_revoked_true |-> 0,
            last |-> [op |-> "none", api_key |-> "none", result |-> FALSE]]

\* generate_api_key(name): a fresh token is inserted with revoked = 0 and
\* request_count = 0 (a token that collides raises IntegrityError and another is
\* drawn)
generate_api_key(name) ==
  /\ ext.ops < MaxOps
  /\ \E k \in Tokens :
       /\ RowsOf(ext.table, k) = {}
       /\ ext' = [ext EXCEPT !.table = Append(@, [api_key |-> k, name |-> name,
                                                  revoked |-> 0, request_count |-> 0]),
                              !.ops = @ + 1,
                              !.issued = @ \cup {k},
                              !.n_generated = @ + 1,
                              !.last = [op |-> "generate", api_key |-> k, result |-> TRUE]]
  /\ UNCHANGED <<poolVars, task, histVars>>

\* verify_api_key(k): False when no row has the key or the row is revoked;
\* otherwise last_used_at and request_count are updated and True is returned
verify_api_key(k) ==
  /\ ext.ops < MaxOps
  /\ LET found == RowsOf(ext.table, k)
     IN IF found = {} \/ \E i \in found : ext.table[i].revoked # 0
        THEN ext' = [ext EXCEPT !.ops = @ + 1,
                                !.last = [op |-> "verify", api_key |-> k, result |-> FALSE]]
        ELSE ext' = [ext EXCEPT !.table = [i \in 1..Len(@) |->
                                            IF i \in found
                                            THEN [@[i] EXCEPT !.request_count = @ + 1]
                                            ELSE @[i]],
                                !.ops = @ + 1,
                                !.last = [op |-> "verify", api_key |-> k, result |-> TRUE]]
  /\ UNCHANGED <<poolVars, task, histVars>>

\* revoke_api_key(k): the UPDATE, then True when cursor.rowcount > 0
revoke_api_key(k) ==
  /\ ext.ops < MaxOps
  /\ LET hit == {i \in 1..Len(ext.table) : RevokeWhere(ext.table[i], k)}
     IN ext' = [ext EXCEPT !.table = [i \in 1..Len(@) |->
                                       IF i \in hit THEN [@[i] EXCEPT !.revoked = 1]
                                       ELSE @[i]],
                           !.ops = @ + 1,
                           !.revoked_ok = IF hit # {} THEN @ \cup {k} ELSE @,
                           !.n_revoked_true = IF hit # {} THEN @ + 1 ELSE @,
                           !.last = [op |-> "revoke", api_key |-> k, result |-> hit # {}]]
  /\ UNCHANGED <<poolVars, task, histVars>>

NextStore ==
  \/ \E name \in Names : generate_api_key(name)
  \/ \E k \in Tokens : verify_api_key(k)
  \/ \E k \in Tokens : revoke_api_key(k)

SpecStore == InitStore /\ [][NextStore]_vars

\* ----------------------------------- ProxyServer.proxy_handler: target URL
\* TARGET_API_HOST = "https://api.cerebras.ai/v1/", as one piece of text
TARGET_API_HOST == <<"https://api.cerebras.ai/v1/">>

\* request.match_info["path"]: text over a few characters, up to MaxPathLen
PathChars == {"v", "1", "/", "c"}
Paths == SeqsUpTo(PathChars, MaxPathLen)

\* path.startswith(prefix)
StartsWith(path, prefix) ==
  /\ Len(path) >= Len(prefix)
  /\ SubSeq(path, 1, Len(prefix)) = prefix

\* if path.startswith("v1/"): path = path[3:]
StripPrefix_None(path) == path
StripPrefix(path) ==
  IF StartsWith(path, <<"v", "1", "/">>) THEN SubSeq(path, 4, Len(path)) ELSE path

\* target_url = f"{TARGET_API_HOST}{path}"
TargetUrl(path) == TARGET_API_HOST \o StripPrefix(path)

\* two requests are about to arrive: one for path p, one for "v1/" + p
InitPath ==
  /\ InitPool
  /\ ext \in {[path |-> q, plain |-> "none", prefixed |-> "none"] : q \in Paths}

\* the request for p: its target URL
ResolvePlain ==
  /\ ext.plain = "none"
  /\ ext' = [ext EXCEPT !.plain = TargetUrl(ext.path)]
  /\ UNCHANGED <<poolVars, task, histVars>>

\* the request for "v1/" + p: its target URL
ResolvePrefixed ==
  /\ ext.prefixed = "none"
  /\ ext' = [ext EXCEPT !.prefixed = TargetUrl(<<"v", "1", "/">> \o ext.path)]
  /\ UNCHANGED <<poolVars, task, histVars>>

NextPath == ResolvePlain \/ ResolvePrefixed

SpecPath == InitPath /\ [][NextPath]_vars

\* ------------------------------- ProxyServer.proxy_handler: outbound headers
\* header names an inbound request can carry, as the client spelled them
HeaderNames ==
  {"Authorization", "authorization", "AUTHORIZATION", "Host", "host", "Accept", "User-Agent"}

\* request.headers: any subset of the names, each with the client's value
InboundValue(n) == <<"inbound", n>>
InboundHeaders == {[n \in S |-> InboundValue(n)] : S \in SUBSET HeaderNames}

\* key.lower()
Lower_Identity(n) == n
Lower(n) ==
  CASE n \in {"Authorization", "authorization", "AUTHORIZATION"} -> "authorization"
    [] n \in {"Host", "host"} -> "host"
    [] n = "Accept" -> "accept"
    [] n = "User-Agent" -> "user-agent"

\* f"Bearer {api_key}"
Bearer(k) == <<"Bearer", k>>

\* headers[n] = v
Put(h, n, v) == [x \in DOMAIN h \cup {n} |-> IF x = n THEN v ELSE h[x]]

\* headers = {key: value for key, value in request.headers.items()
\*            if key.lower() not in ('authorization', 'host')}
\* headers["User-Agent"] = "Cerebras-Proxy/1.0"
BuildHeaders(inbound) ==
  LET kept == {n \in DOMAIN inbound : Lower(n) \notin {"authorization", "host"}}
  IN Put([n \in kept |-> inbound[n]], "User-Agent", "Cerebras-Proxy/1.0")

\* a request with any inbound headers reaches proxy_handler
InitHeaders ==
  /\ InitPool
  /\ ext \in {[pc |-> "handler", inbound |-> h, headers |-> << >>, api_key |-> NoKey,
                attempt |-> 0, outbound |-> << >>] : h \in InboundHeaders}

\* the code before the loop: the outbound headers are built once
HdrBuild ==
  /\ ext.pc = "handler"
  /\ ext' = [ext EXCEPT !.pc = "loop", !.headers = BuildHeaders(ext.inbound)]
  /\ UNCHANGED <<poolVars, task, histVars>>

\* one iteration: the key of the attempt (the next in rotation), then
\* headers["Authorization"] = f"Bearer {api_key}", then session.request(...,
\* headers=headers)
HdrAttempt ==
  /\ ext.pc = "loop"
  /\ keys' = Rotate(keys)
  /\ ext' = [ext EXCEPT !.pc = "sent",
                         !.api_key = LastKey(keys'),
                         !.headers = Put(@, "Authorization", Bearer(LastKey(keys'))),
                         !.outbound = Put(ext.headers, "Authorization", Bearer(LastKey(keys')))]
  /\ UNCHANGED <<keys0, lock, cooldown, task, histVars>>

\* `continue`: the same headers dict goes into the next iteration
HdrContinue ==
  /\ ext.pc = "sent"
  /\ ext.attempt + 1 < MaxRetries(get_key_count)
  /\ ext' = [ext EXCEPT !.pc = "loop", !.attempt = @ + 1]
  /\ UNCHANGED <<poolVars, task, histVars>>

NextHeaders == HdrBuild \/ HdrAttempt \/ HdrContinue

SpecHeaders == InitHeaders /\ [][NextHeaders]_vars

\* history: the example of the design on pool {A, B}: request 1 gets 429 on A,
\* retries and gets 200 on B, which is returned; request 2 follows at once and
\* selects its first key. ev is the step taken, by task t; any other step, and
\* any passing of time, ends the match.
Observe(ev, t) ==
  CASE scen = "fresh" /\ ev = "Start" /\ keys0 = <<"A", "B">> -> "r1_started"
    [] scen = "r1_started" /\ ev = "Select" /\ task'[t].api_key = "A" -> "r1_A"
    [] scen = "r1_A" /\ ev = "Respond" /\ hist'[t].upstream.status = 429 -> "r1_A_429"
    [] scen = "r1_A_429" /\ ev = "MarkRateLimited" -> "r1_retry"
    [] scen = "r1_retry" /\ ev = "Select" /\ task'[t].api_key = "B" -> "r1_B"
    [] scen = "r1_B" /\ ev = "Respond" /\ hist'[t].upstream.status = 200 -> "r1_B_200"
    [] scen = "r1_B_200" /\ ev = "MarkSuccess" /\ task'[t].result.status = 200
         -> "r1_returned"
    [] scen = "r1_returned" /\ ev = "Finish" -> "r1_returned"
    [] scen = "r1_returned" /\ ev = "Start" -> "r2_started"
    [] scen = "r2_started" /\ ev = "Finish" -> "r2_started"
    [] scen = "r2_started" /\ ev = "Select" -> "r2_selected"
    [] OTHER -> "off"

\* ---------------------------------------- ProxyServer.proxy_handler: steps
\* Every await of the handler is a step; the code between two awaits runs
\* without interruption.

\* a request arrives: target_url, headers, max_retries; the loop is entered
Start(t) ==
  /\ task[t].pc = "idle"
  /\ requests < MaxRequests
  /\ requests' = requests + 1
  /\ task' = [task EXCEPT ![t] = [IdleTask EXCEPT !.pc = "get_key",
                                                  !.max_retries = MaxRetries(get_key_count)]]
  /\ hist' = [hist EXCEPT ![t] = NoHist]
  /\ scen' = Observe("Start", t)
  /\ UNCHANGED <<ext, poolVars, log, calls, sinceFail, cleared>>

\* await get_current_key() raises: the call is outside the try block
GetKeyRaise(t) ==
  /\ task[t].pc = "get_key"
  /\ task' = Return(t, Raised)
  /\ hist' = Ended(t, "key_error")
  /\ scen' = Observe("GetKeyRaise", t)
  /\ UNCHANGED <<ext, poolVars, log, calls, requests, sinceFail, cleared>>

\* get_current_key, under the pool lock: advance the cursor to the next available
\* key and return it; then headers["Authorization"] = f"Bearer {api_key}" and
\* session.request(...) is issued
GckSelect(t) ==
  /\ task[t].pc = "get_key"
  /\ lock = NoTask
  /\ ScanSteps(keys, cooldown) > 0
  /\ keys' = RotateN(keys, ScanSteps(keys, cooldown))
  /\ task' = [task EXCEPT ![t].pc = "request", ![t].api_key = LastKey(keys'),
                          ![t].sleep = 0]
  /\ hist' = [hist EXCEPT ![t].sent = @ + 1, ![t].outcome = "none",
                           ![t].advanced = ScanSteps(keys, cooldown)]
  /\ scen' = Observe("Select", t)
  /\ lock' = Release(t)
  /\ UNCHANGED <<ext, keys0, cooldown, log, calls, requests, sinceFail, cleared>>

\* get_current_key, under the pool lock: every key is cooling; release the lock
\* and sleep until the earliest cooldown ends
GckSuspend(t) ==
  /\ task[t].pc = "get_key"
  /\ lock = NoTask
  /\ ScanSteps(keys, cooldown) = 0
  /\ task' = [task EXCEPT ![t].pc = "gck_sleep", ![t].sleep = EarliestExpiry(cooldown)]
  /\ hist' = [hist EXCEPT ![t].outcome = "none",
                           ![t].blockedLeft = IF @ = -1 THEN EarliestExpiry(cooldown) ELSE @]
  /\ scen' = Observe("Suspend", t)
  /\ lock' = Release(t)
  /\ UNCHANGED <<ext, keys0, keys, cooldown, log, calls, requests, sinceFail, cleared>>

\* get_current_key: the sleep ends; re-evaluate
GckWake(t) ==
  /\ task[t].pc = "gck_sleep"
  /\ task[t].sleep = 0
  /\ task' = [task EXCEPT ![t].pc = "get_key"]
  /\ scen' = Observe("Wake", t)
  /\ UNCHANGED <<ext, poolVars, log, calls, requests, hist, sinceFail, cleared>>

\* the upstream answered with status s and body b: build `response`, branch on s
Respond(t, s, b) ==
  /\ CASE StatusBranch(s) = "rate_limited" ->
            /\ task' = [task EXCEPT ![t].pc = "rl_try", ![t].response = UpstreamResponse(s, b)]
            /\ hist' = Answer(t, s, b)
       [] StatusBranch(s) = "success" ->
            /\ task' = [task EXCEPT ![t].pc = "succ", ![t].response = UpstreamResponse(s, b)]
            /\ hist' = Answer(t, s, b)
       [] OTHER ->
            /\ task' = Return(t, UpstreamResponse(s, b))
            /\ hist' = AnswerReturned(t, s, b)
  /\ scen' = Observe("Respond", t)
  /\ UNCHANGED <<ext, poolVars, log, calls, requests, sinceFail, cleared>>

\* if method in ("GET", "HEAD", "OPTIONS")
HasNoBody(m) == m \in {"GET", "HEAD", "OPTIONS"}

\* GET, HEAD, OPTIONS: request without a body
RespondNoBody(t) ==
  /\ task[t].pc = "request"
  /\ {m \in Methods : HasNoBody(m)} # {}
  /\ \E s \in Statuses, b \in Bodies : Respond(t, s, b)

\* POST, PUT, PATCH, DELETE: request with the inbound body streamed
RespondBody(t) ==
  /\ task[t].pc = "request"
  /\ {m \in Methods : ~HasNoBody(m)} # {}
  /\ \E s \in Statuses, b \in Bodies : Respond(t, s, b)

\* except aiohttp.ClientError: record the failure, then continue
TransportError(t) ==
  /\ task[t].pc = "request"
  /\ \E e \in Exceptions :
       /\ IsClientError(e)
       /\ hist' = Outcome(t, Caught(e))
       /\ task' = [task EXCEPT ![t].pc = "rl_exc"]
  /\ scen' = Observe("TransportError", t)
  /\ UNCHANGED <<ext, poolVars, log, calls, requests, sinceFail, cleared>>

\* except Exception: return 500
UnexpectedError(t) ==
  /\ task[t].pc = "request"
  /\ \E e \in Exceptions :
       /\ ~IsClientError(e)
       /\ IsException(e)
       /\ hist' = Ended(t, e)
       /\ task' = Return(t, Synthetic500)
  /\ scen' = Observe("UnexpectedError", t)
  /\ UNCHANGED <<ext, poolVars, log, calls, requests, sinceFail, cleared>>

\* the inbound request is cancelled while the outbound call is in flight: no
\* except clause takes CancelledError, the session is closed on the way out and
\* the exception leaves proxy_handler
CancelInFlight(t) ==
  /\ task[t].pc = "request"
  /\ \E e \in Exceptions :
       /\ ~IsClientError(e)
       /\ ~IsException(e)
       /\ hist' = Ended(t, e)
       /\ task' = Return(t, Raised)
  /\ scen' = Observe("Cancel", t)
  /\ UNCHANGED <<ext, poolVars, log, calls, requests, sinceFail, cleared>>

\* the inbound request is cancelled while get_current_key sleeps (the lock is
\* not held there): the sleep is abandoned and the exception leaves
\* proxy_handler
CancelSleep(t) ==
  /\ task[t].pc = "gck_sleep"
  /\ hist' = Ended(t, "CancelledInSelect")
  /\ task' = Return(t, Raised)
  /\ scen' = Observe("Cancel", t)
  /\ UNCHANGED <<ext, poolVars, log, calls, requests, sinceFail, cleared>>

\* mark_key_rate_limited / mark_key_success raises inside the try block:
\* except Exception returns 500
MarkRaiseInTry(t) ==
  /\ task[t].pc \in {"rl_try", "succ"}
  /\ task' = Return(t, Synthetic500)
  /\ hist' = Ended(t, "mark_error")
  /\ scen' = Observe("MarkRaise", t)
  /\ UNCHANGED <<ext, poolVars, log, calls, requests, sinceFail, cleared>>

\* mark_key_rate_limited raises inside the except aiohttp.ClientError handler:
\* no clause catches it
MarkRaiseInHandler(t) ==
  /\ task[t].pc = "rl_exc"
  /\ task' = Return(t, Raised)
  /\ hist' = Ended(t, "mark_error")
  /\ scen' = Observe("MarkRaise", t)
  /\ UNCHANGED <<ext, poolVars, log, calls, requests, sinceFail, cleared>>

\* mark_key_rate_limited(api_key), under the pool lock; then `continue`
MarkRateLimited(t) ==
  /\ task[t].pc \in {"rl_try", "rl_exc"}
  /\ lock = NoTask
  /\ cooldown' = RateLimited(cooldown, task[t].api_key)
  /\ sinceFail' = [sinceFail EXCEPT ![task[t].api_key] = 0]
  /\ cleared' = [cleared EXCEPT ![task[t].api_key] = FALSE]
  /\ hist' = [hist EXCEPT ![t].outcome = IF task[t].pc = "rl_try" THEN "status_retry"
                                             ELSE "transport_retry",
                           ![t].upstream = NoUpstream,
                           ![t].sent = IF task[t].attempt + 1 < task[t].max_retries
                                       THEN @ ELSE 0]
  /\ task' = Continue(t)
  /\ scen' = Observe("MarkRateLimited", t)
  /\ lock' = Release(t)
  /\ UNCHANGED <<ext, keys0, keys, log, calls, requests>>

\* mark_key_success(api_key), under the pool lock; then `return response`
MarkSuccess(t) ==
  /\ task[t].pc = "succ"
  /\ lock = NoTask
  /\ cooldown' = Success(cooldown, task[t].api_key)
  /\ cleared' = [cleared EXCEPT ![task[t].api_key] = sinceFail[task[t].api_key] >= 0]
  /\ hist' = Ended(t, "returned")
  /\ task' = Return(t, task[t].response)
  /\ scen' = Observe("MarkSuccess", t)
  /\ lock' = Release(t)
  /\ UNCHANGED <<ext, keys0, keys, log, calls, requests, sinceFail>>

\* the caller has its answer; the task is free for the next request
Finish(t) ==
  /\ task[t].pc = "done"
  /\ task' = [task EXCEPT ![t] = IdleTask]
  /\ hist' = [hist EXCEPT ![t] = NoHist]
  /\ scen' = Observe("Finish", t)
  /\ UNCHANGED <<ext, poolVars, log, calls, requests, sinceFail, cleared>>

Dec(n) == IF n > 0 THEN n - 1 ELSE n

\* one unit of time passes: cooldowns and sleeps get shorter
Tick ==
  /\ cooldown' = [k \in KeySet |-> Dec(cooldown[k])]
  /\ task' = [t \in Tasks |-> [task[t] EXCEPT !.sleep = Dec(@)]]
  /\ hist' = [t \in Tasks |-> [hist[t] EXCEPT !.blockedLeft = Dec(@)]]
  /\ sinceFail' = [k \in KeySet |->
                     IF sinceFail[k] >= 0 /\ sinceFail[k] + 1 < CooldownDuration
                     THEN sinceFail[k] + 1 ELSE -1]
  /\ cleared' = [k \in KeySet |-> cleared[k] /\ sinceFail'[k] >= 0]
  /\ scen' = Observe("Tick", NoTask)
  /\ UNCHANGED <<ext, keys0, keys, lock, log, calls, requests>>

Next ==
  \/ Tick
  \/ \E t \in Tasks :
       \/ Start(t)
       \/ GetKeyRaise(t) \/ GckSelect(t) \/ GckSuspend(t) \/ GckWake(t)
       \/ RespondNoBody(t) \/ RespondBody(t)
       \/ TransportError(t) \/ UnexpectedError(t)
       \/ CancelInFlight(t) \/ CancelSleep(t)
       \/ MarkRaiseInTry(t) \/ MarkRaiseInHandler(t)
       \/ MarkRateLimited(t) \/ MarkSuccess(t)
       \/ Finish(t)

Spec == Init /\ [][Next]_vars

\* the steps of task t that the event loop, the pool lock and the upstream owe
\* it: the lock is granted (selection, marks), the sleep ends, the outbound call
\* completes with a response or fails with an exception
HandlerStep(t) ==
  \/ GckSelect(t) \/ GckSuspend(t) \/ GckWake(t)
  \/ RespondNoBody(t) \/ RespondBody(t)
  \/ TransportError(t) \/ UnexpectedError(t)
  \/ MarkRateLimited(t) \/ MarkSuccess(t)

\* the handler under a fair event loop: time passes, and every task that can
\* take a step of its own eventually takes one
SpecLive == Spec /\ WF_vars(Tick) /\ \A t \in Tasks : WF_vars(HandlerStep(t))

\* ================================================================ properties
\* ------------------------------------------------------------ get_next_key

\* the key after k in the configured order, wrapping from the last to the first
Successor(k) ==
  LET i == CHOOSE j \in 1..Len(keys0) : keys0[j] = k
  IN keys0[(i % Len(keys0)) + 1]

\* C1: on a pool of N keys, the i-th call to get_next_key returns the key at
\* position ((i - 1) mod N) + 1 of the configured order: the first N calls return
\* each key exactly once in mapping order and call N + 1 returns the first again.
C1_SequentialRoundRobin ==
  \A i \in 1..Len(log) : log[i] = keys0[((i - 1) % Len(keys0)) + 1]

\* more than N calls returned on a pool of at least two keys: the wrap happened
C1_Witness ==
  /\ Len(keys0) >= 2
  /\ Len(log) > Len(keys0)
  /\ log[Len(keys0) + 1] = keys0[1]

\* C2: when calls overlap, at most one caller is inside the locked section; in
\* the order in which the lock was obtained every call moves the cursor by
\* exactly one position (the key returned is the successor of the key returned
\* before it: none skipped, none returned twice in a row by interleaving), and
\* the deque is the configured order rotated once per completed call.
C2_StrictRotationUnderContention ==
  /\ Cardinality({t \in Tasks : task[t].pc = "gnk_locked"}) <= 1
  /\ \A t \in Tasks : task[t].pc = "gnk_locked" <=> lock = t
  /\ \A i \in 1..(Len(log) - 1) : log[i + 1] = Successor(log[i])
  /\ \A i \in 1..Len(keys) :
       keys[i] = keys0[((i - 1 + Len(log)) % Len(keys0)) + 1]

\* two callers have returned keys and now one holds the lock while the other
\* waits for it
C2_Witness ==
  /\ Len(keys0) >= 2
  /\ Len(log) >= 2
  /\ \E t, u \in Tasks :
       /\ task[t].pc = "gnk_locked"
       /\ task[u].pc = "gnk_acquire"
       /\ task[t].api_key # NoKey
       /\ task[u].api_key # NoKey

\* ------------------------------------------------- cooldown and selection

\* task t evaluates the pool in this step: it gets a key or starts to wait
Evaluated(t) == task[t].pc = "get_key" /\ task'[t].pc \in {"request", "gck_sleep"}
\* the evaluation returns a key
Selected(t) == task[t].pc = "get_key" /\ task'[t].pc = "request"
\* the evaluation finds no key and the task starts to wait
Suspended(t) == task[t].pc = "get_key" /\ task'[t].pc = "gck_sleep"

C4_BlockedUntilEarliestExpiry ==
  [][\A t \in Tasks :
       (Evaluated(t) /\ hist[t].blockedLeft >= 0)
         => (Selected(t) <=> hist[t].blockedLeft = 0)]_vars

\* C4 amended: a selection that found every key cooling sleeps for exactly the
\* time left until the earliest cooling-until, is not re-evaluated before and
\* returns no key before that time; an evaluation returns a key exactly when
\* some key is available then, and waits again when every key is cooling again.
C4_BlockedUntilEarliestExpiryThenReevaluates ==
  [][\A t \in Tasks :
       /\ (Selected(t) /\ hist[t].blockedLeft >= 0) => hist[t].blockedLeft = 0
       /\ Evaluated(t) => (Selected(t) <=> \E k \in KeySet : cooldown[k] = 0)
       /\ Suspended(t) =>
            /\ \A k \in KeySet : task'[t].sleep <= cooldown[k]
            /\ \E k \in KeySet : task'[t].sleep = cooldown[k]
       /\ (task[t].pc = "gck_sleep" /\ task'[t].pc \notin {"gck_sleep", "done"})
            => (task[t].sleep = 0 /\ task'[t].pc = "get_key")]_vars

\* a task that had to wait for the earliest cooldown to end has got a key
C4_Witness ==
  \E t \in Tasks :
    /\ task[t].pc = "request"
    /\ hist[t].blockedLeft = 0
    /\ Len(keys0) >= 2

\* ------------------------------------------------------- forward and retry

\* the outbound call of task t gets an upstream answer in this step
Answered(t) == task[t].pc = "request" /\ hist'[t].upstream # NoUpstream
\* the upstream's answer as a response to the caller
Relayed(u) == [kind |-> "upstream", status |-> u.status, body |-> u.body]
\* the loop of task t goes on with its next iteration, or ends exhausted
NextIteration(t) ==
  IF task[t].attempt + 1 < task[t].max_retries
  THEN /\ task'[t].pc = "get_key"
       /\ task'[t].attempt = task[t].attempt + 1
       /\ task'[t].result = NoResponse
  ELSE /\ task'[t].pc = "done"
       /\ task'[t].result = Synthetic503

\* C5: an attempt answered 429 or 500 returns nothing to the caller and goes on
\* to record the failure for the key of that attempt; when the record is made,
\* exactly that key gets a full cooldown and the loop goes on with the next
\* iteration (a new selection) while the retry bound allows one.
C5_RetryableStatusMarksFailureAndContinues ==
  [][\A t \in Tasks :
       /\ (Answered(t) /\ hist'[t].upstream.status \in ROTATE_KEY_ERROR_CODES) =>
            /\ task'[t].pc = "rl_try"
            /\ task'[t].result = NoResponse
            /\ task'[t].api_key = task[t].api_key
            /\ task'[t].attempt = task[t].attempt
       /\ (task[t].pc = "rl_try" /\ hist'[t].outcome = "status_retry") =>
            /\ cooldown' = [cooldown EXCEPT ![task[t].api_key] = CooldownDuration]
            /\ NextIteration(t)]_vars

\* a 429 or 500 answer was discarded, a key is cooling and the next iteration began
C5_Witness ==
  \E t \in Tasks :
    /\ task[t].pc = "get_key"
    /\ task[t].attempt >= 1
    /\ hist[t].outcome = "status_retry"
    /\ \E k \in KeySet : cooldown[k] = CooldownDuration

\* the outcomes C6 and C9 call retryable
RetryableOutcomes == {"status_retry", "transport_retry", "ClientError", "TimeoutError"}

\* C6: a request makes at most 2 x poolSize outbound attempts, and it ends with
\* the synthetic 503 exactly when its attempts all ended in a retryable outcome
\* (transport failure, timeout included, 429 or 500).
C6_At_Most_2N_Attempts_503_Iff_Exhausted ==
  \A t \in Tasks :
    /\ hist[t].sent <= 2 * Len(keys0)
    /\ task[t].pc = "done" =>
         (task[t].result = Synthetic503 <=> hist[t].outcome \in RetryableOutcomes)

\* C7: an answer with a status of 400 or more other than 429 and 500 ends the
\* request in the same step with the upstream's status and body, and leaves the
\* cooldowns and the cursor as they were; a request that has ended makes no
\* further attempt.
C7_OtherErrorsRelayedWithoutStateChange ==
  [][\A t \in Tasks :
       /\ (/\ Answered(t)
           /\ hist'[t].upstream.status >= 400
           /\ hist'[t].upstream.status \notin ROTATE_KEY_ERROR_CODES) =>
            /\ task'[t].pc = "done"
            /\ task'[t].result = Relayed(hist'[t].upstream)
            /\ cooldown' = cooldown
            /\ keys' = keys
       /\ task[t].pc = "done" => task'[t].pc \in {"done", "idle"}]_vars

\* an upstream 404 or 503 was relayed while a key was cooling
C7_Witness ==
  \E t \in Tasks :
    /\ task[t].pc = "done"
    /\ hist[t].upstream.status \in {404, 503}
    /\ task[t].result = Relayed(hist[t].upstream)
    /\ \E k \in KeySet : cooldown[k] > 0

\* C8: an attempt answered with a status below 400 goes on to record the
\* success for the key of that attempt; when the record is made, that key's
\* cooldown is cleared, no other key changes, and the request ends with the
\* upstream's status and body.
C8_SuccessMarkedAndRelayed ==
  [][\A t \in Tasks :
       /\ (Answered(t) /\ hist'[t].upstream.status < 400) =>
            /\ task'[t].pc = "succ"
            /\ task'[t].api_key = task[t].api_key
            /\ task'[t].result = NoResponse
       /\ (task[t].pc = "succ" /\ hist'[t].outcome = "returned") =>
            /\ cooldown' = [cooldown EXCEPT ![task[t].api_key] = 0]
            /\ task'[t].pc = "done"
            /\ task'[t].result = Relayed(hist[t].upstream)]_vars

\* a 200 answer was relayed after the success was recorded, with a key cooling
C8_Witness ==
  \E t \in Tasks :
    /\ task[t].pc = "done"
    /\ hist[t].outcome = "returned"
    /\ hist[t].upstream.status = 200
    /\ task[t].result = Relayed(hist[t].upstream)
    /\ \E k \in KeySet : cooldown[k] > 0

\* C9: an outbound attempt that fails at the transport level (connection
\* error, timeout) is not answered to the caller: the task goes on to record the
\* failure for the key of the attempt, and when recorded that key gets a full
\* cooldown and the loop goes on with the next iteration.
C9_TransportFailureMarksFailureAndContinues ==
  [][\A t \in Tasks :
       /\ (/\ task[t].pc = "request"
           /\ hist'[t].outcome \in {"ClientError", "TimeoutError"}) =>
            /\ task'[t].pc = "rl_exc"
            /\ task'[t].result = NoResponse
            /\ task'[t].api_key = task[t].api_key
       /\ (task[t].pc = "rl_exc" /\ hist'[t].outcome = "transport_retry") =>
            /\ cooldown' = [cooldown EXCEPT ![task[t].api_key] = CooldownDuration]
            /\ NextIteration(t)]_vars

\* C10: a request whose attempt met an unexpected failure (in the outbound
\* call, while obtaining the key, or while recording success or failure) has
\* ended with the synthetic 500.
C10_UnexpectedFailureReturns500 ==
  \A t \in Tasks :
    (hist[t].outcome \in {"RuntimeError", "key_error", "mark_error"})
      => (task[t].pc = "done" /\ task[t].result = Synthetic500)

\* ------------------------------------------------------------ construction

C12_SecondRequestSelectsB ==
  scen = "r2_selected" =>
    \E t \in Tasks :
      /\ task[t].pc = "request"
      /\ task[t].attempt = 0
      /\ task[t].api_key = "B"
      /\ \A u \in Tasks \ {t} : task[u].pc \in {"idle", "done"}

\* request 2 of the example has selected its first key while A is cooling
C12_Witness ==
  /\ scen = "r2_selected"
  /\ cooldown["A"] = CooldownDuration
  /\ cooldown["B"] = 0

\* ------------------------------------------------------------ lock scope

\* C13: no task holds the pool lock while its outbound call is in flight or
\* while it sleeps until a cooldown ends; the lock is held only by a task inside
\* a locked section, so a pending call or sleep of one request leaves the lock
\* free for the selection of another.
C13_LockNotHeldAcrossCallOrSleep ==
  /\ \A t \in Tasks : task[t].pc \in {"request", "gck_sleep"} => lock # t
  /\ lock # NoTask => task[lock].pc = "gnk_locked"

\* one request's outbound call is in flight, another request sleeps until the
\* cooldown ends, and the lock is free
C13_Witness ==
  /\ lock = NoTask
  /\ \E t, u \in Tasks :
       /\ task[t].pc = "request"
       /\ task[u].pc = "gck_sleep"
       /\ task[u].sleep > 0

\* -------------------------------------------------------- outbound headers

\* C14: the headers of every outbound attempt hold Authorization = "Bearer "
\* followed by the key selected for that attempt, and hold no header named
\* authorization or host, in any spelling, with the value the client sent.
C14_AuthorizationIsBearerOfAttemptKey ==
  ext.pc = "sent" =>
    /\ "Authorization" \in DOMAIN ext.outbound
    /\ ext.outbound["Authorization"] = <<"Bearer", ext.api_key>>
    /\ ext.api_key = keys[Len(keys)]
    /\ \A n \in DOMAIN ext.outbound :
         n \in {"Authorization", "authorization", "AUTHORIZATION", "Host", "host"}
           => (n = "Authorization" /\ ext.outbound[n] # <<"inbound", n>>)

\* a retry went out with the second key while the client had sent its own
\* Authorization and Host headers
C14_Witness ==
  /\ ext.pc = "sent"
  /\ ext.attempt >= 1
  /\ {"AUTHORIZATION", "Authorization", "Host"} \subseteq DOMAIN ext.inbound
  /\ ext.outbound["Authorization"] = <<"Bearer", "B">>

\* --------------------------------------------------------------- target URL

\* C15: for a path p that does not start with "v1/", the request for p and the
\* request for "v1/" + p get the same target URL: the upstream base followed
\* by p.
C15_PrefixedAndPlainPathSameTarget ==
  (/\ ext.plain # "none"
   /\ ext.prefixed # "none"
   /\ ~(Len(ext.path) >= 3 /\ SubSeq(ext.path, 1, 3) = <<"v", "1", "/">>))
    => /\ ext.plain = ext.prefixed
       /\ ext.plain = <<"https://api.cerebras.ai/v1/">> \o ext.path

\* both requests are resolved for a path that begins like the prefix ("v1c",
\* "v11", "v1v") but is not prefixed
C15_Witness ==
  /\ ext.plain # "none"
  /\ ext.prefixed # "none"
  /\ Len(ext.path) = 3
  /\ ext.path[1] = "v"
  /\ ext.path[2] = "1"
  /\ ext.path[3] # "/"
  /\ ext.plain = ext.prefixed

\* ---------------------------------------------------- markFailure, markSuccess

\* task t records a failure for its key in this step
FailureMarked(t) ==
  /\ task[t].pc \in {"rl_try", "rl_exc"}
  /\ hist'[t].outcome \in {"status_retry", "transport_retry"}
\* task t records a success for its key in this step
SuccessMarked(t) == task[t].pc = "succ" /\ hist'[t].outcome = "returned"

\* C16: when a failure is recorded for a key, the time left of its cooldown
\* afterwards is the full cooldownDuration and is not less than the time that
\* was left before, also when the key was already cooling; no other key and not
\* the cursor changes.
C16_MarkFailureNeverShortens ==
  [][\A t \in Tasks :
       FailureMarked(t) =>
         /\ cooldown'[task[t].api_key] >= CooldownDuration
         /\ cooldown'[task[t].api_key] >= cooldown[task[t].api_key]
         /\ \A k \in KeySet \ {task[t].api_key} : cooldown'[k] = cooldown[k]
         /\ keys' = keys]_vars

\* pool {A}: one request sleeps for what was left of A's cooldown when it
\* suspended, and a second request has since recorded another failure for A,
\* which set the cooldown back to its full length
C16_Witness ==
  /\ Len(keys0) = 1
  /\ \E t \in Tasks :
       /\ task[t].pc = "gck_sleep"
       /\ task[t].sleep > 0
       /\ cooldown["A"] > task[t].sleep
       /\ cooldown["A"] = CooldownDuration

\* C17: when a success is recorded for a key, that key is available afterwards
\* whatever its state was, no other key's cooldown and not the cursor changes,
\* and recording it once more changes nothing.
C17_MarkSuccessClearsOnlyItsKey ==
  [][\A t \in Tasks :
       SuccessMarked(t) =>
         /\ cooldown'[task[t].api_key] = 0
         /\ \A k \in KeySet \ {task[t].api_key} : cooldown'[k] = cooldown[k]
         /\ keys' = keys
         /\ Success(cooldown', task[t].api_key) = cooldown']_vars

\* a success has cleared a cooldown that another request had set for the same
\* key, while a different key is still cooling
C17_Witness ==
  \E k, j \in KeySet :
    /\ k # j
    /\ sinceFail[k] >= 0
    /\ cleared[k]
    /\ cooldown[k] = 0
    /\ cooldown[j] > 0

\* ------------------------------------------------------------- cancellation

\* C18: a request cancelled while its outbound call is in flight or while it
\* sleeps in the selection ends there; the step leaves the cursor, every
\* cooldown and the lock as they were, the lock is not held by the cancelled
\* task, the selection that went to sleep had itself changed neither cursor nor
\* cooldowns, and a cancelled request changes nothing afterwards.
C18_CancellationLeavesPoolUnchanged ==
  [][\A t \in Tasks :
       /\ (/\ task[t].pc \in {"request", "gck_sleep"}
           /\ hist'[t].outcome \in {"CancelledError", "CancelledInSelect"}) =>
            /\ task'[t].pc = "done"
            /\ keys' = keys
            /\ cooldown' = cooldown
            /\ lock' = lock
            /\ lock' # t
       /\ Suspended(t) => (keys' = keys /\ cooldown' = cooldown /\ lock' # t)
       /\ (/\ hist[t].outcome \in {"CancelledError", "CancelledInSelect"}
           /\ task'[t] # task[t]) =>
            (keys' = keys /\ cooldown' = cooldown /\ lock' = lock)]_vars

\* pool {A}: one request was cancelled in flight and the other while it slept
\* for A's cooldown; A is still cooling and the lock is free
C18_Witness ==
  /\ lock = NoTask
  /\ \E k \in KeySet : cooldown[k] > 0
  /\ \E t, u \in Tasks :
       /\ task[t].pc = "done" /\ hist[t].outcome = "CancelledError"
       /\ task[u].pc = "done" /\ hist[u].outcome = "CancelledInSelect"

\* ---------------------------------------------------------------- key store

\* C19: a verify returns True exactly when its token has been issued and no
\* revoke of it has returned True before; a revoke of a token for which a revoke
\* has returned True before returns False; this holds after any sequence of
\* generate, verify and revoke.
C19_VerifyIffIssuedAndNotRevoked ==
  [][ext'.ops = ext.ops + 1 =>
       /\ ext'.last.op = "verify" =>
            (ext'.last.result <=>
               (ext'.last.api_key \in ext.issued /\ ext'.last.api_key \notin ext.revoked_ok))
       /\ (ext'.last.op = "revoke" /\ ext'.last.api_key \in ext.revoked_ok)
            => ext'.last.result = FALSE
       /\ (ext'.last.op = "revoke" /\ ext'.last.api_key \notin ext.issued)
            => ext'.last.result = FALSE]_vars

\* a token was issued, verified, revoked, and the revoke repeated on it has
\* returned False
C19_Witness ==
  /\ ext.last.op = "revoke"
  /\ ext.last.result = FALSE
  /\ ext.last.api_key \in ext.issued
  /\ ext.last.api_key \in ext.revoked_ok
  /\ \E i \in 1..Len(ext.table) :
       /\ ext.table[i].api_key = ext.last.api_key
       /\ ext.table[i].request_count >= 1

\* C22: after any sequence of generate, verify and revoke, get_stats() gives
\* total = active + revoked, total is the number of generate_api_key calls that
\* returned a token, and revoked is the number of revoke_api_key calls that
\* returned True; a verify_api_key call that returns False leaves every row of
\* the table as it was.
C22_StatsAccountForIssuesAndRevokes ==
  [][LET stats == get_stats(ext'.table)
     IN /\ stats.total = stats.active + stats.revoked
        /\ stats.total = ext'.n_generated
        /\ stats.revoked = ext'.n_revoked_true
        /\ (ext'.ops = ext.ops + 1 /\ ext'.last.op = "verify"
                                   /\ ext'.last.result = FALSE)
             => ext'.table = ext.table]_vars

\* two tokens were issued and one of them revoked, a revoke has returned False,
\* and the last call is a verify of the revoked token that returned False
C22_Witness ==
  /\ get_stats(ext.table) = [total |-> 2, active |-> 1, revoked |-> 1]
  /\ ext.n_revoked_true = 1
  /\ ext.ops = MaxOps
  /\ ext.last = [op |-> "verify", api_key |-> ext.last.api_key, result |-> FALSE]
  /\ ext.last.api_key \in ext.revoked_ok

\* ------------------------------------------------------------- termination

\* what proxy_handler can hand back as a response: an upstream response whose
\* status is not a rotate code, the synthetic 503, the synthetic 500
IsResponse(r) ==
  \/ r.kind = "upstream" /\ r.status \notin ROTATE_KEY_ERROR_CODES
  \/ r = Synthetic503
  \/ r = Synthetic500

\* the request of task t was cancelled by its caller
Cancelled(t) == hist[t].outcome \in {"CancelledError", "CancelledInSelect"}

\* C21: under a fair event loop (every outbound call completes or fails, the
\* lock is granted, time passes) every request that has entered proxy_handler
\* and is not cancelled by its caller eventually ends with a response that is an
\* upstream response with a status other than 429 and 500, the synthetic 503 or
\* the synthetic 500; also when every key is cooling and with requests running
\* side by side.
C21_EveryRequestEventuallyAnswered ==
  \A t \in Tasks :
    (task[t].pc \notin {"idle", "done"})
      ~> (task[t].pc = "done" /\ (IsResponse(task[t].result) \/ Cancelled(t)))

\* ---------------------------------------------------------- pool membership

\* C20: in every state the deque holds the configured keys, as many as were
\* configured, in the configured cyclic order (it is the configured sequence
\* rotated), the cooldowns are kept for exactly those keys, and every request in
\* progress runs with the retry bound 2 x the configured count.
C20_PoolMembershipFixed ==
  /\ Len(keys) = Len(keys0)
  /\ \E n \in 0..(Len(keys0) - 1) :
       \A i \in 1..Len(keys0) : keys[i] = keys0[((i - 1 + n) % Len(keys0)) + 1]
  /\ DOMAIN cooldown = {keys0[i] : i \in 1..Len(keys0)}
  /\ \A t \in Tasks :
       task[t].pc \notin {"idle", "done"} => task[t].max_retries = 2 * Len(keys0)

\* after selections, a recorded failure and a recorded success the deque stands
\* rotated, and a request is in progress
C20_Witness ==
  /\ Len(keys0) >= 2
  /\ keys # keys0
  /\ \E k \in KeySet : cooldown[k] > 0
  /\ \E k \in KeySet : cleared[k]
  /\ \E t \in Tasks : task[t].pc = "request" /\ task[t].attempt >= 1

====
